---- MODULE Spec2Model ----
(***************************************************************************)
(* MatchHistogram (VapourSynth plugin): the CurveData class of             *)
(* src/src/MatchHistogram.cpp -- Create, Process, Show, Debug -- and the   *)
(* per-frame driver MatchHistogramGetFrame.                                *)
(*                                                                         *)
(* A plane is a buffer of height * stride bytes, held as its rows of        *)
(* stride bytes each: the byte at offset o is buffer[o \div stride][o %     *)
(* stride], so the sample at row h, column w is the byte at h*stride + w.  *)
(* The fields of CurveData are the variables sum, div and curve.  Create   *)
(* is followed stage by stage through pc, one action per stage of its      *)
(* body, in the order of the source.                                       *)
(***************************************************************************)
EXTENDS Integers, Sequences, FiniteSets, TLC

VARIABLES
  pc,                \* position of the caller / of Create between its stages
  ptr1, ptr2,        \* Create's key plane and value plane
  width, height, stride,
  raw, smoothing_window,
  sum, div, curve,   \* CurveData's fields
  mem, srcp, dstp,   \* Process: the buffers, and which of them are src and dst
  plane, pstride,    \* Show, Debug: the plane drawn on (ptr) and its stride
  color,             \* Show: the marker colour
  show, debug,       \* MatchHistogramData: the mode flags ...
  process, format,   \* ... the selected planes, the clips' format
  src1, src2, src3,  \* the frames of clip1, clip2 and clip3 for a request
  dst,               \* the frame MatchHistogramGetFrame returns
  runs, pos,         \* Create on large planes: the samples as runs, the next run
  in, out,           \* MatchHistogramCreate: the argument map, the result map
  refs,              \* the node references d.clip1, d.clip2, d.clip3
  vi,                \* MatchHistogramData: the video info of the filter's output
  reqs,              \* parallel requests: each activation of MatchHistogramGetFrame
  cds                \* parallel requests: the CurveData objects

args   == <<ptr1, ptr2, width, height, stride, raw, smoothing_window>>
fields == <<sum, div, curve>>
procv  == <<mem, srcp, dstp>>
rendv  == <<plane, pstride, color>>
filtv  == <<show, debug, process, format>>
framev == <<src1, src2, src3>>
reqv   == <<filtv, framev, dst>>
accv   == <<runs, pos>>
setv   == <<in, out, refs, vi>>
parv   == <<reqs, cds>>

vars == <<pc, args, fields, procv, rendv, reqv, accv, setv, parv>>

(***************************************************************************)
(* Bounds of the model.                                                    *)
(***************************************************************************)
MaxWidth  == 2
MaxHeight == 2
MaxPad    == 1
MaxWindow == 2

(***************************************************************************)
(* Program constants.                                                      *)
(***************************************************************************)
Levels == 256
Idx    == 0 .. (Levels - 1)
TopIdx == Levels - 1

\* Sample values the input planes are built from.
KeySamples == {0, 100, 103, 255}
ValSamples == {0, 1, 255}

(***************************************************************************)
(* C arithmetic.                                                           *)
(***************************************************************************)
\* sum[] and div[] are unsigned int and IntDiv takes int.  TLC's own
\* integers are the 32-bit signed ones: every value it can hold is an int, an
\* unsigned value below 2^31 converts to the same int, and an addition that
\* leaves that range stops TLC with an overflow error instead of
\* wrapping.
IntMax == 2147483647
\* unsigned int -> int
ToS32(x) == IF x > IntMax THEN (x - IntMax) - (IntMax + 2) ELSE x
\* int -> unsigned char (a store into curve[])
ToU8(x) == x % Levels
\* C's integer division truncates toward zero
CDiv(x, y) ==
  IF (x < 0) = (y < 0)
  THEN (IF x < 0 THEN -x ELSE x) \div (IF y < 0 THEN -y ELSE y)
  ELSE -((IF x < 0 THEN -x ELSE x) \div (IF y < 0 THEN -y ELSE y))
\* y >> 1 on an int (arithmetic shift)
Shr1(y) == y \div 2

\* IntDiv without the rounding term
IntDivTrunc(x, y) == CDiv(x, y)

\* IntDiv with y added instead of y >> 1
IntDivNoShift(x, y) ==
  IF (x < 0) # (y < 0) THEN CDiv(x - y, y)
                       ELSE CDiv(x + y, y)

IntDiv(x, y) ==
  IF (x < 0) # (y < 0) THEN CDiv(x - Shr1(y), y)
                       ELSE CDiv(x + Shr1(y), y)

Min(a, b) == IF a < b THEN a ELSE b
Max(a, b) == IF a > b THEN a ELSE b
\* std::min(std::max(x, 0), 255)
Clamp(x) == Min(Max(x, 0), TopIdx)

(***************************************************************************)
(* Loops.  For(Body, lo, hi, s) is                                         *)
(*     for (i = lo; i <= hi; i++) s = Body(s, i);                          *)
(* evaluated by halving the range; every intermediate value is bound by a  *)
(* quantifier so that it is computed once.                                 *)
(***************************************************************************)
\* F applied to the value of x
Bind(x, F(_)) == CHOOSE y \in {F(v) : v \in {x}} : TRUE

RECURSIVE For(_, _, _, _)
For(Body(_, _), lo, hi, s) ==
  IF lo > hi THEN s
  ELSE IF lo = hi THEN CHOOSE y \in {Body(r, lo) : r \in {s}} : TRUE
  ELSE LET mid == (lo + hi) \div 2
       IN CHOOSE y \in {For(Body, mid + 1, hi, r) : r \in {For(Body, lo, mid, s)}} : TRUE

\* for (p = hi; p >= lo; p--) if (d[p] != 0) { found = p; break; }   (else -1)
ScanDown(d, lo, hi) ==
  IF \A p \in lo .. hi : d[p] = 0 THEN -1
  ELSE CHOOSE p \in lo .. hi : d[p] # 0 /\ \A q \in (p + 1) .. hi : d[q] = 0

\* for (n = lo; n <= hi; n++) if (d[n] != 0) { found = n; break; }   (else -1)
ScanUp(d, lo, hi) ==
  IF \A p \in lo .. hi : d[p] = 0 THEN -1
  ELSE CHOOSE p \in lo .. hi : d[p] # 0 /\ \A q \in lo .. (p - 1) : d[q] = 0

\* Offset of the q-th sample (row-major) of a plane w samples wide.
Offset(q, w, st) == (q \div w) * st + (q % w)

\* p[o] and p[o] = v on a buffer p whose rows are st bytes
Load(p, o, st) == p[o \div st][o % st]
Store(p, o, v, st) == [p EXCEPT ![o \div st][o % st] = v]

(***************************************************************************)
(* CurveData::Create, stage by stage.  A stage maps the fields             *)
(* [sum, div, curve] to the fields after it.                               *)
(***************************************************************************)
\* "Clear data"
ClearData(s) ==
  [s EXCEPT !.sum = [i \in Idx |-> 0], !.div = [i \in Idx |-> 0]]

\* "Populate data"
Populate(s, p1, p2, w, h, st) ==
  LET Step(t, q) ==
        LET k == Load(p1, Offset(q, w, st), st)
            v == Load(p2, Offset(q, w, st), st)
        IN [t EXCEPT !.sum[k] = @ + v, !.div[k] = @ + 1]
  IN For(Step, 0, w * h - 1, s)

\* "Raw curve"
RawCurve(s) ==
  [s EXCEPT !.curve =
     [i \in Idx |-> IF s.div[i] # 0
                    THEN ToU8(IntDiv(ToS32(s.sum[i]), ToS32(s.div[i])))
                    ELSE 0]]

\* Flat without the reset to -1 at a second defined index
FlatFirst(d) == ScanUp(d, 0, TopIdx)

\* The search for a single defined index: flat, or -1
Flat(d) ==
  LET f == ScanUp(d, 0, TopIdx)
  IN IF f = -1 THEN -1
     ELSE IF ScanUp(d, f + 1, TopIdx) = -1 THEN f ELSE -1

\* Uniform without the copy
UniformNoCopy(s, flat) == s

\* "Uniform color"
Uniform(s, flat) == [s EXCEPT !.curve = [i \in Idx |-> s.curve[flat]]]

\* FillStep without  sum[i] = curve[i]
FillStepNoSum(s, i) ==
  IF s.div[i] # 0 THEN s
  ELSE CHOOSE y \in
         { IF prev # -1 /\ next # -1
           THEN LET c == ToU8(Clamp(s.curve[prev]
                               + IntDiv((i - prev) * (s.curve[next] - s.curve[prev]),
                                        next - prev)))
                IN [s EXCEPT !.curve[i] = c, !.div[i] = 1]
           ELSE s
           : prev \in {ScanDown(s.div, 0, i - 1)},
             next \in {ScanUp(s.div, i + 1, TopIdx)} } : TRUE

\* FillStep dividing with /, without the rounding of IntDiv
FillStepTrunc(s, i) ==
  IF s.div[i] # 0 THEN s
  ELSE CHOOSE y \in
         { IF prev # -1 /\ next # -1
           THEN LET c == ToU8(Clamp(s.curve[prev]
                               + CDiv((i - prev) * (s.curve[next] - s.curve[prev]),
                                      next - prev)))
                IN [s EXCEPT !.curve[i] = c, !.sum[i] = c, !.div[i] = 1]
           ELSE s
           : prev \in {ScanDown(s.div, 0, i - 1)},
             next \in {ScanUp(s.div, i + 1, TopIdx)} } : TRUE

\* FillStep without  div[i] = 1
FillStepNoMark(s, i) ==
  IF s.div[i] # 0 THEN s
  ELSE CHOOSE y \in
         { IF prev # -1 /\ next # -1
           THEN LET c == ToU8(Clamp(s.curve[prev]
                               + IntDiv((i - prev) * (s.curve[next] - s.curve[prev]),
                                        next - prev)))
                IN [s EXCEPT !.curve[i] = c, !.sum[i] = c]
           ELSE s
           : prev \in {ScanDown(s.div, 0, i - 1)},
             next \in {ScanUp(s.div, i + 1, TopIdx)} } : TRUE

\* "Fill missing": the body of the loop over i
FillStep(s, i) ==
  IF s.div[i] # 0 THEN s
  ELSE CHOOSE y \in
         { IF prev # -1 /\ next # -1
           THEN LET c == ToU8(Clamp(s.curve[prev]
                               + IntDiv((i - prev) * (s.curve[next] - s.curve[prev]),
                                        next - prev)))
                IN [s EXCEPT !.curve[i] = c, !.sum[i] = c, !.div[i] = 1]
           ELSE s
           : prev \in {ScanDown(s.div, 0, i - 1)},
             next \in {ScanUp(s.div, i + 1, TopIdx)} } : TRUE

FillMissing(s) == For(FillStep, 0, TopIdx, s)

\* ExtendBottom without the clamp to 0..255
ExtendBottomNoClamp(s) ==
  IF s.div[0] # 0 THEN s
  ELSE CHOOSE y \in
         { LET Step(t, i) ==
                 IF first * 2 - i <= TopIdx /\ t.div[first * 2 - i] # 0
                 THEN LET c == ToU8(t.curve[first] * 2 - t.curve[first * 2 - i])
                      IN [t EXCEPT !.curve[i] = c, !.sum[i] = c, !.div[i] = 1]
                 ELSE t
           IN For(Step, 0, first - 1, s)
           : first \in {ScanUp(s.div, 0, TopIdx)} } : TRUE

\* "Extend bottom"
ExtendBottom(s) ==
  IF s.div[0] # 0 THEN s
  ELSE CHOOSE y \in
         { LET Step(t, i) ==
                 IF first * 2 - i <= TopIdx /\ t.div[first * 2 - i] # 0
                 THEN LET c == ToU8(Clamp(t.curve[first] * 2 - t.curve[first * 2 - i]))
                      IN [t EXCEPT !.curve[i] = c, !.sum[i] = c, !.div[i] = 1]
                 ELSE t
           IN For(Step, 0, first - 1, s)
           : first \in {ScanUp(s.div, 0, TopIdx)} } : TRUE

\* ExtendTop without  div[i] = 1
ExtendTopNoMark(s) ==
  IF s.div[TopIdx] # 0 THEN s
  ELSE CHOOSE y \in
         { LET Step(t, k) ==
                 LET i == TopIdx - k
                 IN IF last * 2 - i >= 0 /\ t.div[last * 2 - i] # 0
                    THEN LET c == ToU8(Clamp(t.curve[last] * 2 - t.curve[last * 2 - i]))
                         IN [t EXCEPT !.curve[i] = c, !.sum[i] = c]
                    ELSE t
           IN For(Step, 0, TopIdx - last - 1, s)
           : last \in {ScanDown(s.div, 0, TopIdx)} } : TRUE

\* "Extend top": i runs from 255 down to last + 1
ExtendTop(s) ==
  IF s.div[TopIdx] # 0 THEN s
  ELSE CHOOSE y \in
         { LET Step(t, k) ==
                 LET i == TopIdx - k
                 IN IF last * 2 - i >= 0 /\ t.div[last * 2 - i] # 0
                    THEN LET c == ToU8(Clamp(t.curve[last] * 2 - t.curve[last * 2 - i]))
                         IN [t EXCEPT !.curve[i] = c, !.sum[i] = c, !.div[i] = 1]
                    ELSE t
           IN For(Step, 0, TopIdx - last - 1, s)
           : last \in {ScanDown(s.div, 0, TopIdx)} } : TRUE

\* One iteration of  while (div[0] == 0 || div[255] == 0)
ExtendOnce(s) == CHOOSE y \in {ExtendTop(b) : b \in {ExtendBottom(s)}} : TRUE

RECURSIVE SumRange(_, _, _)
SumRange(f, lo, hi) ==
  IF lo > hi THEN 0
  ELSE IF lo = hi THEN f[lo]
  ELSE LET mid == (lo + hi) \div 2
       IN SumRange(f, lo, mid) + SumRange(f, mid + 1, hi)

\* Smooth with j running over [-w, w]
SmoothInclusive(s, w) ==
  IF w > 0
  THEN [s EXCEPT
         !.sum = [i \in Idx |->
                    SumRange(s.curve, Max(i - w, 0), Min(i + w, TopIdx))],
         !.div = [i \in Idx |->
                    Max(Min(i + w, TopIdx) - Max(i - w, 0) + 1, 0)]]
  ELSE s

\* "Smooth curve": j runs over [-w, w), i + j kept inside 0..255
Smooth(s, w) ==
  IF w > 0
  THEN [s EXCEPT
         !.sum = [i \in Idx |->
                    SumRange(s.curve, Max(i - w, 0), Min(i + w - 1, TopIdx))],
         !.div = [i \in Idx |->
                    Max(Min(i + w - 1, TopIdx) - Max(i - w, 0) + 1, 0)]]
  ELSE s

\* The closing  curve[i] = IntDiv(sum[i], div[i])
Recompute(s) ==
  [s EXCEPT !.curve =
     [i \in Idx |-> ToU8(IntDiv(ToS32(s.sum[i]), ToS32(s.div[i])))]]

\* Lines 48-71: clear, populate, raw curve
RawStage(s, p1, p2, w, h, st) ==
  LET Pop(t) == Populate(t, p1, p2, w, h, st)
  IN Bind(Bind(ClearData(s), Pop), RawCurve)

\* The whole while loop
RECURSIVE ExtendLoop(_)
ExtendLoop(s) ==
  IF s.div[0] = 0 \/ s.div[TopIdx] = 0
  THEN Bind(Bind(s, ExtendOnce), ExtendLoop)
  ELSE s

\* Lines 163-180
SmoothStage(s, w) ==
  LET Sm(t) == Smooth(t, w)
  IN Bind(Bind(s, Sm), Recompute)

\* Lines 73-182: the postprocessing of the raw curve
PostStage(s, w) ==
  LET Rest(t) == SmoothStage(t, w)
      flat == Flat(s.div)
  IN IF flat # -1 THEN Uniform(s, flat)
     ELSE Bind(Bind(Bind(s, FillMissing), ExtendLoop), Rest)

\* CurveData::Create as one step
Create(s, p1, p2, w, h, st, rw, sw) ==
  LET Post(t) == IF rw THEN t ELSE PostStage(t, sw)
  IN Bind(RawStage(s, p1, p2, w, h, st), Post)

(***************************************************************************)
(* CurveData::Process.  m maps buffer names to buffers; sn and dn name the  *)
(* buffers srcp and dstp point to, the same name when the caller passes    *)
(* one buffer for both.                                                    *)
(***************************************************************************)
\* Process stepping the rows by width instead of stride
ProcessNoStride(m, c, sn, dn, w, h, st) ==
  LET Step(t, q) ==
        [t EXCEPT ![dn] = Store(@, Offset(q, w, w),
                                c[Load(t[sn], Offset(q, w, w), st)], st)]
  IN For(Step, 0, w * h - 1, m)

\* Lines 185-193
Process(m, c, sn, dn, w, h, st) ==
  LET Step(t, q) ==
        [t EXCEPT ![dn] = Store(@, Offset(q, w, st),
                                c[Load(t[sn], Offset(q, w, st), st)], st)]
  IN For(Step, 0, w * h - 1, m)

(***************************************************************************)
(* CurveData::Show and CurveData::Debug: loops of single stores            *)
(*     ptr[row * stride + i] = value        (i the column, 0..255)         *)
(***************************************************************************)
\* Show drawing at row curve[i] instead of 255 - curve[i]
ShowNoFlip(p, c, st, col) ==
  LET Step(t, i) == Store(t, (c[i] * st) + i, col, st)
  IN For(Step, 0, TopIdx, p)

\* Lines 195-198
Show(p, c, st, col) ==
  LET Step(t, i) == Store(t, ((TopIdx - c[i]) * st) + i, col, st)
  IN For(Step, 0, TopIdx, p)

\* Lines 201-205: the bars, column i at grey level curve[i]
DebugBars(p, c, st) ==
  LET Bar(t, i) ==
        LET Step(u, j) == Store(u, ((TopIdx - j) * st) + i, c[i], st)
        IN For(Step, 0, c[i], t)
  IN For(Bar, 0, TopIdx, p)

\* Lines 207-211 without the test curve[i] > 0
DebugTraceNoTest(p, c, st) ==
  LET Step(t, i) == Store(t, ((TopIdx - c[i]) * st) + i, TopIdx, st)
  IN For(Step, 0, TopIdx, p)

\* Lines 207-211: the trace, full intensity at the curve's own height
DebugTrace(p, c, st) ==
  LET Step(t, i) ==
        IF c[i] > 0 THEN Store(t, ((TopIdx - c[i]) * st) + i, TopIdx, st)
        ELSE t
  IN For(Step, 0, TopIdx, p)

\* Lines 200-212
Debug(p, c, st) ==
  LET Bars(t) == DebugBars(t, c, st)
      Trace(t) == DebugTrace(t, c, st)
  IN Bind(Bind(p, Bars), Trace)

(***************************************************************************)
(* The input planes.                                                       *)
(***************************************************************************)
\* A buffer of h rows of st bytes whose q-th sample is pat[q % Len(pat) + 1]
\* and whose padding bytes hold pad.
Plane(pat, pad, w, h, st) ==
  [y \in 0 .. (h - 1) |->
     [x \in 0 .. (st - 1) |->
        IF x < w THEN pat[((y * w + x) % Len(pat)) + 1] ELSE pad]]

KeyPatterns == {k \in KeySamples \X KeySamples : k[1] <= k[2]}
ValPatterns == ValSamples \X ValSamples \X ValSamples

Fields == [sum |-> sum, div |-> div, curve |-> curve]

Init ==
  /\ pc = "start"
  /\ width \in {1, MaxWidth}
  /\ height \in {1, MaxHeight}
  /\ \E pad \in {0, MaxPad} : stride = width + pad
  \* the padding bytes hold 7 (key plane) and 9 (value plane)
  /\ \E kk \in KeyPatterns : ptr1 = Plane(kk, 7, width, height, stride)
  \* ... or the value plane is the key plane itself
  /\ \/ \E vv \in ValPatterns : ptr2 = Plane(vv, 9, width, height, stride)
     \/ ptr2 = ptr1
  /\ raw \in BOOLEAN
  /\ smoothing_window \in {0, MaxWindow}
  \* the object is not initialised by its constructor
  /\ sum = [i \in Idx |-> i + 1]
  /\ div = [i \in Idx |-> Levels - i]
  /\ curve = [i \in Idx |-> (i * 3) % Levels]
  \* a: a plane with the key plane's content, b: one with the value plane's,
  \* d: a fresh destination
  /\ mem = [a |-> ptr1, b |-> ptr2,
            d |-> [y \in 0 .. (height - 1) |->
                     [x \in 0 .. (stride - 1) |-> (y * stride + x + 5) % Levels]]]
  /\ srcp = "none"
  /\ dstp = "none"
  /\ plane = <<>>
  /\ pstride = 0
  /\ color = 0
  \* no filter instance, no frame request
  /\ show = FALSE
  /\ debug = FALSE
  /\ process = [p \in 0 .. 2 |-> 0]
  /\ format = [numPlanes |-> 0, subSamplingW |-> 0, subSamplingH |-> 0]
  /\ src1 = <<>>
  /\ src2 = <<>>
  /\ src3 = <<>>
  /\ dst = <<>>
  /\ runs = <<>>
  /\ pos = 0
  /\ in = <<>> /\ out = <<>> /\ refs = <<>> /\ vi = <<>>
  /\ reqs = <<>> /\ cds = <<>>

\* Create, lines 48-71
CreateRaw ==
  /\ pc = "start"
  /\ \E s \in {RawStage(Fields, ptr1, ptr2, width, height, stride)} :
       /\ sum' = s.sum
       /\ div' = s.div
       /\ curve' = s.curve
  /\ pc' = IF raw THEN "created" ELSE "post"
  /\ UNCHANGED <<args, procv, rendv, reqv, accv, setv, parv>>

\* Create, lines 73-90: a single defined index
CreateUniform ==
  /\ pc = "post"
  /\ Flat(div) # -1
  /\ curve' = Uniform(Fields, Flat(div)).curve
  /\ pc' = "created"
  /\ UNCHANGED <<args, sum, div, procv, rendv, reqv, accv, setv, parv>>

\* Create, lines 92-117: the gaps between defined indices
CreateFill ==
  /\ pc = "post"
  /\ Flat(div) = -1
  /\ \E s \in {FillMissing(Fields)} :
       /\ sum' = s.sum
       /\ div' = s.div
       /\ curve' = s.curve
  /\ pc' = "extend"
  /\ UNCHANGED <<args, procv, rendv, reqv, accv, setv, parv>>

\* Create, lines 119-161: one iteration of the while loop
CreateExtend ==
  /\ pc = "extend"
  /\ div[0] = 0 \/ div[TopIdx] = 0
  /\ \E s \in {ExtendOnce(Fields)} :
       /\ sum' = s.sum
       /\ div' = s.div
       /\ curve' = s.curve
  /\ pc' = "extend"
  /\ UNCHANGED <<args, procv, rendv, reqv, accv, setv, parv>>

\* Create, lines 163-180: the loop has ended; smoothing and the closing division
CreateSmooth ==
  /\ pc = "extend"
  /\ ~(div[0] = 0 \/ div[TopIdx] = 0)
  /\ \E s \in {SmoothStage(Fields, smoothing_window)} :
       /\ sum' = s.sum
       /\ div' = s.div
       /\ curve' = s.curve
  /\ pc' = "created"
  /\ UNCHANGED <<args, procv, rendv, reqv, accv, setv, parv>>

\* Process on the finished curve, into a distinct buffer or in place
DoProcess ==
  /\ pc = "created"
  /\ \E sn \in {"a", "b"} : \E dn \in {sn, "d"} :
       /\ srcp' = sn
       /\ dstp' = dn
       /\ mem' = Process(mem, curve, sn, dn, width, height, stride)
  /\ pc' = "processed"
  /\ UNCHANGED <<args, fields, rendv, reqv, accv, setv, parv>>

(***************************************************************************)
(* Rendering.  The caller hands Show and Debug a plane of at least 256     *)
(* rows whose stride is at least 256; Canvas(h, st) is what it holds       *)
(* before the call, every byte below 89.                                   *)
(***************************************************************************)
Canvas(h, st) ==
  [y \in 0 .. (h - 1) |-> [x \in 0 .. (st - 1) |-> (x + (y * (st + 1))) % 89]]

\* uint8_t show_colors[3], line 295
show_colors == [p \in 0 .. 2 |-> IF p = 0 THEN 235 ELSE IF p = 1 THEN 160 ELSE 96]

\* Two samples of two keys, the first 100, against a value plane whose
\* second sample is 0 or 255
RenderInit ==
  /\ Init
  /\ width = MaxWidth /\ height = 1 /\ stride = width
  /\ smoothing_window = MaxWindow
  /\ \E kk \in KeyPatterns : kk[1] = 100 /\ ptr1 = Plane(kk, 7, width, height, stride)
  /\ \E vv \in ValPatterns :
       /\ vv[3] = vv[1] /\ vv[2] # 1
       /\ ptr2 = Plane(vv, 9, width, height, stride)

\* Create, lines 47-183, as one step
DoCreate ==
  /\ pc = "start"
  /\ \E s \in {Create(Fields, ptr1, ptr2, width, height, stride, raw, smoothing_window)} :
       /\ sum' = s.sum
       /\ div' = s.div
       /\ curve' = s.curve
  /\ pc' = "created"
  /\ UNCHANGED <<args, procv, rendv, reqv, accv, setv, parv>>

\* Show on the finished curve
DoShow ==
  /\ pc = "created"
  /\ \E pad \in {0, MaxPad} : \E p \in 0 .. 2 :
       /\ pstride' = Levels + pad
       /\ color' = show_colors[p]
       /\ \E cv \in {Canvas(Levels + pad, Levels + pad)} :
            plane' = Show(cv, curve, Levels + pad, show_colors[p])
  /\ pc' = "shown"
  /\ UNCHANGED <<args, fields, procv, reqv, accv, setv, parv>>

\* Debug on the finished curve
DoDebug ==
  /\ pc = "created"
  /\ \E pad \in {0, MaxPad} :
       /\ pstride' = Levels + pad
       /\ \E cv \in {Canvas(Levels + pad, Levels + pad)} :
            plane' = Debug(cv, curve, Levels + pad)
  /\ pc' = "debugged"
  /\ UNCHANGED <<args, fields, procv, color, reqv, accv, setv, parv>>

RenderNext ==
  \/ DoCreate
  \/ DoShow
  \/ DoDebug

SpecRender == RenderInit /\ [][RenderNext]_vars

(***************************************************************************)
(* MatchHistogramGetFrame.  A frame maps the plane numbers of its format   *)
(* to planes [width, height, stride, data]; the filter's configuration     *)
(* (MatchHistogramData) is raw, show, debug, smoothing_window, process and *)
(* format, as MatchHistogramCreate accepted it.                            *)
(***************************************************************************)
\* The side of the overlay and of the debug frame, lines 316-317 and 482-483
OverlaySize == 256

\* x >> n
Shr(x, n) == x \div (2 ^ n)

\* getFrameWidth, getFrameHeight of a w x h frame
PlaneWidth(fmt, w, p) == Shr(w, IF p # 0 THEN fmt.subSamplingW ELSE 0)
PlaneHeight(fmt, h, p) == Shr(h, IF p # 0 THEN fmt.subSamplingH ELSE 0)

\* getStride: the rows of a plane are padded
StrideOf(w) == w + MaxPad

\* A w x h frame whose plane p repeats the samples pat[k] + p, with padding
\* bytes pad
Frame(fmt, w, h, pat, pad) ==
  [p \in 0 .. (fmt.numPlanes - 1) |->
     CHOOSE r \in {[width  |-> pw,
                    height |-> ph,
                    stride |-> StrideOf(pw),
                    data   |-> Plane(pt, pad, pw, ph, StrideOf(pw))] :
                      pw \in {PlaneWidth(fmt, w, p)},
                      ph \in {PlaneHeight(fmt, h, p)},
                      pt \in {[k \in DOMAIN pat |-> (pat[k] + p) % Levels]}} : TRUE]

\* newVideoFrame: planes of fresh memory.  What it holds is never read:
\* every sample is stored to before the frame is returned.
NewVideoFrame(fmt, w, h) == Frame(fmt, w, h, <<205>>, 205)

\* plane_src, lines 284-288
plane_src == [p \in 0 .. 2 |-> IF process[p] # 0 THEN "nullptr" ELSE "src3"]

\* newVideoFrame2, line 292: plane p is the plane of src3, or fresh memory
NewVideoFrame2(fmt, w, h, psrc) ==
  [p \in 0 .. (fmt.numPlanes - 1) |->
     IF psrc[p] = "src3" THEN src3[p] ELSE NewVideoFrame(fmt, w, h)[p]]

\* memset(data + o, v, n)
memset(data, o, v, n, st) ==
  LET Step(t, k) == Store(t, o + k, v, st)
  IN For(Step, 0, n - 1, data)

\* fillPlane filling whole rows of stride bytes
fillPlaneStride(data, w, h, st, value) ==
  LET Row(t, y) == memset(t, y * st, value, st, st)
  IN For(Row, 0, h - 1, data)

\* Lines 31-37
fillPlane(data, w, h, st, value) ==
  LET Row(t, y) == memset(t, y * st, value, w, st)
  IN For(Row, 0, h - 1, data)

\* Lines 301-313.  t = [dst, cd]: the output frame and the CurveData
ProcessPlane(t, p) ==
  IF process[p] = 0 THEN t
  ELSE LET Cr(u) ==
             [u EXCEPT !.cd = Create(@, src1[p].data, src2[p].data,
                                     src1[p].width, src1[p].height, src1[p].stride,
                                     raw, smoothing_window)]
           Pr(u) ==
             [u EXCEPT !.dst[p].data =
                Process([s |-> src3[p].data, d |-> @], u.cd.curve, "s", "d",
                        src3[p].width, src3[p].height, u.dst[p].stride).d]
       IN Bind(Bind(t, Cr), Pr)

\* Lines 315-326
ShowPlane(t, p) ==
  IF ~show THEN t
  ELSE LET Fill(u) ==
             [u EXCEPT !.dst[p].data =
                fillPlane(@, PlaneWidth(format, OverlaySize, p),
                          PlaneHeight(format, OverlaySize, p),
                          u.dst[p].stride, IF p # 0 THEN 128 ELSE 16)]
           Mark(u) ==
             IF process[p] = 0 THEN u
             ELSE [u EXCEPT !.dst[0].data =
                     Show(@, u.cd.curve, u.dst[0].stride, show_colors[p])]
       IN Bind(Bind(t, Fill), Mark)

\* Lines 297-327: the plane loop of the branch "Not debug"
NormalFrame ==
  LET Sh(t, p) == ShowPlane(t, p)
      Step(t, p) == CHOOSE y \in {Sh(u, p) : u \in {ProcessPlane(t, p)}} : TRUE
  IN For(Step, 0, format.numPlanes - 1,
         [dst |-> NewVideoFrame2(format, src3[0].width, src3[0].height, plane_src),
          cd  |-> Fields])

\* Lines 260-279: one plane of the branch "debug"
DebugPlane(t, p) ==
  LET Fill(u) ==
        [u EXCEPT !.dst[p].data =
           fillPlane(@, u.dst[p].width, u.dst[p].height, u.dst[p].stride,
                     IF p # 0 THEN 128 ELSE 0)]
      Cr(u) ==
        [u EXCEPT !.cd = Create(@, src1[p].data, src2[p].data,
                                src1[p].width, src1[p].height, src1[p].stride,
                                raw, smoothing_window)]
      Db(u) == [u EXCEPT !.dst[0].data = Debug(@, u.cd.curve, u.dst[0].stride)]
      Draw(u) == IF process[p] = 0 THEN u ELSE Bind(Bind(u, Cr), Db)
  IN Bind(Bind(t, Fill), Draw)

\* Lines 257-280: the branch "debug"
DebugFrame ==
  For(DebugPlane, 0, format.numPlanes - 1,
      [dst |-> NewVideoFrame(format, OverlaySize, OverlaySize), cd |-> Fields])

\* GRAY8, YUV444P8, YUV420P8
Formats ==
  {[numPlanes |-> 1, subSamplingW |-> 0, subSamplingH |-> 0],
   [numPlanes |-> 3, subSamplingW |-> 0, subSamplingH |-> 0],
   [numPlanes |-> 3, subSamplingW |-> 1, subSamplingH |-> 1]}

\* The side of the frames given to a filter with show
ShowSide == OverlaySize + 2 * MaxPad

\* A filter MatchHistogramCreate has made, and the frames of its clips for
\* one request
FrameInit ==
  /\ pc = "ready"
  /\ format \in Formats
  /\ process \in [0 .. 2 -> {0, 1}]
  /\ \E p \in 0 .. 2 : process[p] = 1
  /\ \A p \in 0 .. 2 : p >= format.numPlanes => process[p] = 0
  /\ raw \in BOOLEAN
  /\ smoothing_window \in {0, MaxWindow}
  /\ raw => smoothing_window = MaxWindow
  /\ debug \in BOOLEAN
  /\ show \in BOOLEAN
  \* lines 369-370 and 472-474
  /\ debug => (~show /\ process[0] + process[1] + process[2] <= 1)
  \* the frames with show and the debug frames are large: fewer of them
  /\ (show \/ debug) => (format.numPlanes = 3 /\ ~raw /\ smoothing_window = MaxWindow)
  /\ show => format.subSamplingW = 1
  /\ \E side \in {IF show THEN ShowSide ELSE 2 * MaxWidth} :
     \E kk \in {<<100, 103>>} \cup (IF show \/ debug THEN {} ELSE {<<100, 100>>}) :
       /\ src1 = Frame(format, side, side, kk, 7)
       /\ src2 = Frame(format, side, side, <<0, 255, 1>>, 9)
       \* clip3 is clip1, or a clip of its own, of another size
       /\ \/ ~(show \/ debug) /\ src3 = src1
          \/ src3 = Frame(format, side + 2, side + 2, <<1, 200, 30>>, 3)
  /\ dst = <<>>
  \* the CurveData of the request is not initialised by its constructor
  /\ sum = [i \in Idx |-> i + 1]
  /\ div = [i \in Idx |-> Levels - i]
  /\ curve = [i \in Idx |-> (i * 3) % Levels]
  /\ ptr1 = <<>> /\ ptr2 = <<>>
  /\ width = 0 /\ height = 0 /\ stride = 0
  /\ mem = <<>> /\ srcp = "none" /\ dstp = "none"
  /\ plane = <<>> /\ pstride = 0 /\ color = 0
  /\ runs = <<>> /\ pos = 0
  /\ in = <<>> /\ out = <<>> /\ refs = <<>> /\ vi = <<>>
  /\ reqs = <<>> /\ cds = <<>>

\* Lines 240-339, activationReason == arAllFramesReady
MatchHistogramGetFrame ==
  /\ pc = "ready"
  /\ \E t \in {IF debug THEN DebugFrame ELSE NormalFrame} :
       /\ dst' = t.dst
       /\ sum' = t.cd.sum
       /\ div' = t.cd.div
       /\ curve' = t.cd.curve
  /\ pc' = "frame"
  /\ UNCHANGED <<args, procv, rendv, filtv, framev, accv, setv, parv>>

FrameNext == MatchHistogramGetFrame

SpecFrame == FrameInit /\ [][FrameNext]_vars

(***************************************************************************)
(* Create on large planes: the accumulators at their 32-bit width.         *)
(* An unsigned int is held as the int with the same 32 bits, so a value of *)
(* 2^31 or more is held as the value minus 2^32, which is also what its    *)
(* conversion to the int parameter of IntDiv gives.  The plane pair is     *)
(* given as runs [k, v, n]: n consecutive samples with key k and value v.  *)
(***************************************************************************)
\* The most runs of a plane pair
MaxRuns == 2

\* a + b on 32 bits, the carry dropped
AddU32(a, b) ==
  IF a >= 0 /\ b >= 0 /\ a > IntMax - b
  THEN (a - IntMax - 1) + (b - IntMax - 1)
  ELSE IF a < 0 /\ b < 0 /\ a < (-IntMax - 1) - b
  THEN (a + IntMax + 1) + (b + IntMax + 1)
  ELSE a + b

\* v added n times on 32 bits:  n times  sum[k] += v
RECURSIVE TimesU32(_, _)
TimesU32(v, n) ==
  IF n = 0 THEN 0
  ELSE IF n = 1 THEN v
  ELSE \* twice the half, and v once more when n is odd
       CHOOSE y \in {AddU32(AddU32(h, h), IF n % 2 = 1 THEN v ELSE 0) :
                       h \in {TimesU32(v, n \div 2)}} : TRUE

\* Lines 56-59, n times for the same k = ptr1[w] and v = ptr2[w]
PopulateRun(s, r) ==
  [s EXCEPT !.sum[r.k] = AddU32(@, TimesU32(r.v, r.n)),
            !.div[r.k] = AddU32(@, TimesU32(1, r.n))]

\* x + (y >> 1), x - (y >> 1) and the division are in the range of int
IntDivDefined(x, y) ==
  /\ y # 0
  /\ IF (x < 0) # (y < 0)
     THEN IF Shr1(y) >= 0 THEN x >= (-IntMax - 1) + Shr1(y) ELSE x <= IntMax + Shr1(y)
     ELSE IF Shr1(y) >= 0 THEN x <= IntMax - Shr1(y) ELSE x >= (-IntMax - 1) - Shr1(y)

\* Lines 64-71.  A signed overflow inside IntDiv is undefined behaviour:
\* curve[i] may then get any byte
RawCurveOutcomes(s) ==
  LET undef == {i \in Idx : s.div[i] # 0 /\ ~IntDivDefined(ToS32(s.sum[i]), ToS32(s.div[i]))}
  IN {[s EXCEPT !.curve =
         [i \in Idx |-> IF i \in undef THEN f[i]
                        ELSE IF s.div[i] # 0
                        THEN ToU8(IntDiv(ToS32(s.sum[i]), ToS32(s.div[i])))
                        ELSE 0]] : f \in [undef -> Idx]}

\* The keys, the values and the lengths of the runs: one sample, 2^23
\* samples, and the samples of frames of 4096 x 2056 and 4096 x 2160
RunKeys == {0, 100}
RunVals == {0, 255}
RunLengths == {1, 4096 * 2048, 4096 * 2056, 4096 * 2160}

\* The most samples whose sum fits the 32 bits of sum[]: (2^32 - 1) / 255
MaxPixels == (IntMax \div 255) * 2 + 1

\* The runs longer than 2^23 samples are under key 0
Run == {r \in [k : RunKeys, v : RunVals, n : RunLengths] :
          r.k # 0 => r.n <= 4096 * 2048}

RECURSIVE Pixels(_)
Pixels(rs) == IF rs = <<>> THEN 0 ELSE Head(rs).n + Pixels(Tail(rs))

\* A CurveData, not initialised, and a plane pair of at most MaxPixels
\* samples
AccInit ==
  /\ pc = "start"
  /\ runs \in UNION {[1 .. m -> Run] : m \in 1 .. MaxRuns}
  /\ Pixels(runs) <= MaxPixels
  /\ pos = 1
  /\ in = <<>> /\ out = <<>> /\ refs = <<>> /\ vi = <<>>
  /\ reqs = <<>> /\ cds = <<>>
  /\ raw = TRUE
  /\ smoothing_window = 0
  /\ sum = [i \in Idx |-> i + 1]
  /\ div = [i \in Idx |-> Levels - i]
  /\ curve = [i \in Idx |-> (i * 3) % Levels]
  /\ ptr1 = <<>> /\ ptr2 = <<>>
  /\ width = 0 /\ height = 0 /\ stride = 0
  /\ mem = <<>> /\ srcp = "none" /\ dstp = "none"
  /\ plane = <<>> /\ pstride = 0 /\ color = 0
  /\ show = FALSE /\ debug = FALSE
  /\ process = [p \in 0 .. 2 |-> 0]
  /\ format = [numPlanes |-> 0, subSamplingW |-> 0, subSamplingH |-> 0]
  /\ src1 = <<>> /\ src2 = <<>> /\ src3 = <<>> /\ dst = <<>>

\* Create, lines 48-52
AccClear ==
  /\ pc = "start"
  /\ \E s \in {ClearData(Fields)} :
       /\ sum' = s.sum
       /\ div' = s.div
       /\ curve' = s.curve
  /\ pc' = "populate"
  /\ UNCHANGED <<args, procv, rendv, reqv, accv, setv, parv>>

\* Create, lines 54-62: the samples of the next run
AccPopulate ==
  /\ pc = "populate"
  /\ pos <= Len(runs)
  /\ \E s \in {PopulateRun(Fields, runs[pos])} :
       /\ sum' = s.sum
       /\ div' = s.div
       /\ curve' = s.curve
  /\ pos' = pos + 1
  /\ UNCHANGED <<pc, args, procv, rendv, reqv, runs, setv, parv>>

\* Create, lines 64-71 (raw: Create ends)
AccRawCurve ==
  /\ pc = "populate"
  /\ pos > Len(runs)
  /\ \E s \in RawCurveOutcomes(Fields) :
       /\ sum' = s.sum
       /\ div' = s.div
       /\ curve' = s.curve
  /\ pc' = "created"
  /\ UNCHANGED <<args, procv, rendv, reqv, accv, setv, parv>>

AccNext ==
  \/ AccClear
  \/ AccPopulate
  \/ AccRawCurve

SpecAcc == AccInit /\ [][AccNext]_vars

(***************************************************************************)
(* MatchHistogramCreate, lines 354-491: the setup of the filter.  The      *)
(* argument map in gives every key its array of values, <<>> for a key     *)
(* that is not set; a clip is given as its video info.                     *)
(***************************************************************************)
\* The format of a clip of variable format: vi->format is a null pointer
NoFormat ==
  [id |-> 0, colorFamily |-> "none", bitsPerSample |-> 0,
   numPlanes |-> 0, subSamplingW |-> 0, subSamplingH |-> 0]
\* GRAY8, YUV420P8, RGB24, GRAY16
SetupFormats ==
  {[id |-> 1, colorFamily |-> "cmGray", bitsPerSample |-> 8,
    numPlanes |-> 1, subSamplingW |-> 0, subSamplingH |-> 0],
   [id |-> 2, colorFamily |-> "cmYUV", bitsPerSample |-> 8,
    numPlanes |-> 3, subSamplingW |-> 1, subSamplingH |-> 1],
   [id |-> 3, colorFamily |-> "cmRGB", bitsPerSample |-> 8,
    numPlanes |-> 3, subSamplingW |-> 0, subSamplingH |-> 0],
   [id |-> 4, colorFamily |-> "cmGray", bitsPerSample |-> 16,
    numPlanes |-> 1, subSamplingW |-> 0, subSamplingH |-> 0]}

\* The side of a small clip
SmallSide == 2 * MaxWidth

\* The video infos of the clips given to the filter: width and height are 0
\* for a clip of variable dimensions
VideoInfos ==
  {[format |-> NoFormat, width |-> 0, height |-> 0]}
  \cup {[format |-> f, width |-> SmallSide, height |-> SmallSide] : f \in SetupFormats}
  \cup {v \in [format : SetupFormats, width : {0, OverlaySize},
               height : {0, SmallSide, OverlaySize}] :
          /\ v.format.colorFamily = "cmYUV"
          /\ (v.width = 0) = (v.height = 0)}

\* The "planes" arrays given to the filter
PlaneLists == {<<>>, <<1>>, <<0, 1>>, <<1, 1>>, <<3>>, <<-1>>}

\* The argument maps
Maps ==
  [raw : {<<>>}, show : {<<>>, <<1>>}, debug : {<<>>, <<1>>},
   smoothing_window : {<<>>, <<-1>>}, planes : PlaneLists,
   clip1 : VideoInfos, clip2 : VideoInfos,
   clip3 : {<<>>} \cup {<<v>> : v \in VideoInfos}]

\* int64ToIntS: the value, saturated to the range of int
int64ToIntS(x) == Min(Max(x, -IntMax - 1), IntMax)

\* !!propGetInt(in, key, 0, &err); if (err) ... = false;
Flag(a) == IF a = <<>> THEN FALSE ELSE a[1] # 0

\* Lines 361-370 without lines 369-370
ParseFlagsKeepShow(a) ==
  [raw |-> Flag(a.raw), show |-> Flag(a.show), debug |-> Flag(a.debug)]

\* Lines 361-370
ParseFlags(a) ==
  LET d == [raw |-> Flag(a.raw), show |-> Flag(a.show), debug |-> Flag(a.debug)]
  IN IF d.debug THEN [d EXCEPT !.show = FALSE] ELSE d

\* The references d.clip1, d.clip2, d.clip3: the node each refers to, how
\* often it was acquired and how often freeNode was called on it
ClipRefs == {"clip1", "clip2", "clip3"}
NoRefs == [c \in ClipRefs |-> [node |-> "nullptr", got |-> 0, freed |-> 0]]

\* Lines 383-391: propGetNode, and cloneNodeRef(d.clip1) without clip3
GetRefs(a) ==
  [c \in ClipRefs |->
     [node  |-> IF c = "clip3" /\ a.clip3 = <<>> THEN "clip1" ELSE c,
      got   |-> 1,
      freed |-> 0]]

\* freeNode(d.clip1); freeNode(d.clip2); freeNode(d.clip3);
FreeClips(r) == [c \in ClipRefs |-> [r[c] EXCEPT !.freed = @ + 1]]

\* setError(out, msg); return;
SetError(r, msg) == [error |-> msg, created |-> FALSE, refs |-> r]

\* Lines 435-458 without the test of line 448
RECURSIVE PlanesLoopNoTwice(_, _, _, _)
PlanesLoopNoTwice(pl, n, i, proc) ==
  IF i > Len(pl) THEN [error |-> "", process |-> proc]
  ELSE LET o == int64ToIntS(pl[i])
       IN IF o < 0 \/ o >= n
          THEN [error |-> "MatchHistogram: plane index out of range", process |-> proc]
          ELSE PlanesLoopNoTwice(pl, n, i + 1, [proc EXCEPT ![o] = 1])

\* Lines 435-458: the loop over the elements of "planes", from element i
RECURSIVE PlanesLoop(_, _, _, _)
PlanesLoop(pl, n, i, proc) ==
  IF i > Len(pl) THEN [error |-> "", process |-> proc]
  ELSE LET o == int64ToIntS(pl[i])
       IN IF o < 0 \/ o >= n
          THEN [error |-> "MatchHistogram: plane index out of range", process |-> proc]
          ELSE IF proc[o] # 0
          THEN [error |-> "MatchHistogram: plane specified twice", process |-> proc]
          ELSE PlanesLoop(pl, n, i + 1, [proc EXCEPT ![o] = 1])

\* Lines 428-458.  memset(&d, 0, sizeof(d)) has cleared d.process
SelectPlanes(pl, n) ==
  PlanesLoop(pl, n, 1, [p \in 0 .. 2 |-> IF p = 0 /\ Len(pl) <= 0 THEN 1 ELSE 0])

\* Lines 354-491.  The result: the error set in out or "", whether
\* createFilter was called, the references, and the data of the filter
MatchHistogramCreate(a) ==
  LET d   == ParseFlags(a)
      sw  == IF a.smoothing_window = <<>> THEN 8
             ELSE int64ToIntS(a.smoothing_window[1])
      r   == GetRefs(a)
      v1  == a.clip1
      vi2 == a.clip2
      vi3 == IF a.clip3 = <<>> THEN a.clip1 ELSE a.clip3[1]
      sel == SelectPlanes(a.planes, v1.format.numPlanes)
  IN IF sw < 0
     THEN SetError(NoRefs, "MatchHistogram: smoothing_window must not be negative.")
     ELSE IF v1.format # vi2.format \/ v1.format # vi3.format
     THEN SetError(FreeClips(r), "MatchHistogram: the clips must have the same format.")
     ELSE IF v1.width # vi2.width \/ v1.height # vi2.height
     THEN SetError(FreeClips(r),
                   "MatchHistogram: the first two clips must have the same dimensions.")
     ELSE IF \/ v1.format = NoFormat \/ v1.width = 0 \/ v1.height = 0
             \/ vi3.width = 0 \/ vi3.height = 0
     THEN SetError(FreeClips(r),
                   "MatchHistogram: the clips must have constant format and dimensions.")
     ELSE IF v1.format.colorFamily = "cmRGB" \/ v1.format.bitsPerSample > 8
     THEN SetError(FreeClips(r),
                   "MatchHistogram: the clips must have 8 bits per sample and must not be RGB.")
     ELSE IF sel.error # ""
     THEN SetError(FreeClips(r), sel.error)
     ELSE IF d.show /\ (\/ v1.width < OverlaySize \/ v1.height < OverlaySize
                        \/ vi3.width < OverlaySize \/ vi3.height < OverlaySize)
     THEN SetError(FreeClips(r),
                   "MatchHistogram: clips must be at least 256x256 pixels when show is True.")
     ELSE IF d.debug /\ sel.process[0] + sel.process[1] + sel.process[2] > 1
     THEN SetError(FreeClips(r),
                   "MatchHistogram: only one plane can be processed at a time when debug is True.")
     ELSE [error   |-> "",
           created |-> TRUE,
           refs    |-> r,
           raw     |-> d.raw,
           show    |-> d.show,
           debug   |-> d.debug,
           smoothing_window |-> sw,
           process |-> sel.process,
           vi      |-> IF d.debug
                       THEN [format |-> v1.format, width |-> OverlaySize,
                             height |-> OverlaySize]
                       ELSE vi3]

\* The filter is about to be set up with some argument map
SetupInit ==
  /\ pc = "setup"
  /\ in \in Maps
  /\ out = [error |-> "", created |-> FALSE]
  /\ refs = NoRefs
  /\ vi = <<>>
  /\ show = FALSE /\ debug = FALSE /\ raw = FALSE /\ smoothing_window = 0
  /\ process = <<>> /\ format = <<>>
  /\ src1 = <<>> /\ src2 = <<>> /\ src3 = <<>> /\ dst = <<>>
  \* no request yet, and no CurveData
  /\ sum = <<>> /\ div = <<>> /\ curve = <<>>
  /\ ptr1 = <<>> /\ ptr2 = <<>>
  /\ width = 0 /\ height = 0 /\ stride = 0
  /\ mem = <<>> /\ srcp = "none" /\ dstp = "none"
  /\ plane = <<>> /\ pstride = 0 /\ color = 0
  /\ runs = <<>> /\ pos = 0
  /\ reqs = <<>> /\ cds = <<>>

\* Lines 354-491: the whole of MatchHistogramCreate
Setup ==
  /\ pc = "setup"
  /\ \E s \in {MatchHistogramCreate(in)} :
       /\ out' = [error |-> s.error, created |-> s.created]
       /\ refs' = s.refs
       /\ IF s.created
          THEN /\ pc' = "created"
               /\ raw' = s.raw /\ show' = s.show /\ debug' = s.debug
               /\ smoothing_window' = s.smoothing_window
               /\ process' = s.process
               /\ format' = s.vi.format
               /\ vi' = s.vi
          ELSE /\ pc' = "error"
               /\ UNCHANGED <<raw, show, debug, smoothing_window, process, format, vi>>
  /\ UNCHANGED <<ptr1, ptr2, width, height, stride, fields, procv, rendv,
                 framev, dst, accv, in, parv>>

\* Lines 250-253: the frames of the three clips for a request are ready.
\* Without clip3, d.clip3 is a reference to the node of clip1
FramesReady ==
  /\ pc = "created"
  /\ src1' = Frame(format, in.clip1.width, in.clip1.height, <<100, 103>>, 7)
  /\ src2' = Frame(format, in.clip2.width, in.clip2.height, <<0, 255, 1>>, 9)
  /\ src3' = IF in.clip3 = <<>> THEN src1'
             ELSE Frame(format, in.clip3[1].width, in.clip3[1].height, <<1, 200, 30>>, 3)
  /\ pc' = "ready"
  /\ UNCHANGED <<args, fields, procv, rendv, filtv, dst, accv, setv, parv>>

SetupNext == Setup \/ FramesReady \/ MatchHistogramGetFrame

SpecSetup == SetupInit /\ [][SetupNext]_vars

(***************************************************************************)
(* Parallel requests.  The filter is registered with fmParallel (line      *)
(* 490): MatchHistogramGetFrame runs for several frame numbers at once,    *)
(* its steps interleaved.  An activation is followed through its plane     *)
(* loop: reqs[n] holds its frames, its plane index and its position, and   *)
(* cds holds the CurveData objects.                                        *)
(***************************************************************************)
MaxRequests == 2
Requests == 0 .. (MaxRequests - 1)

\* A CurveData with static storage: one object for every activation
CurveObjectStatic(n) == 0

\* Line 255, CurveData curve: an automatic variable, one object for each
\* activation
CurveObject(n) == n

\* An activation together with its CurveData
Thread(n) == [r |-> reqs[n], cd |-> cds[CurveObject(n)]]

\* Lines 258 and 284-292: the output frame is allocated
StartStep(t) ==
  [t EXCEPT
     !.r.dst = IF debug THEN NewVideoFrame(format, vi.width, vi.height)
               ELSE [p \in 0 .. (format.numPlanes - 1) |->
                       IF process[p] = 0 THEN t.r.src3[p]
                       ELSE NewVideoFrame(format, vi.width, vi.height)[p]],
     !.r.p = 0,
     !.r.pc = "plane"]

\* fillPlane of lines 316-320
ShowFill(t) ==
  IF ~show THEN t
  ELSE [t EXCEPT !.r.dst[t.r.p].data =
          fillPlane(@, PlaneWidth(format, OverlaySize, t.r.p),
                    PlaneHeight(format, OverlaySize, t.r.p),
                    t.r.dst[t.r.p].stride, IF t.r.p # 0 THEN 128 ELSE 16)]

\* Lines 260-268 and 296-300: the head of the plane loop, up to the call of
\* Create, or the whole iteration for a plane that is not processed
PlaneStep(t) ==
  IF t.r.p >= format.numPlanes THEN [t EXCEPT !.r.pc = "done"]
  ELSE LET u == IF ~debug THEN t
                ELSE [t EXCEPT !.r.dst[t.r.p].data =
                        fillPlane(@, t.r.dst[t.r.p].width, t.r.dst[t.r.p].height,
                                  t.r.dst[t.r.p].stride, IF t.r.p # 0 THEN 128 ELSE 0)]
       IN IF process[t.r.p] # 0 THEN [u EXCEPT !.r.pc = "create"]
          ELSE [ShowFill(u) EXCEPT !.r.p = @ + 1]

\* Lines 276 and 309: curve.Create
CreateStep(t) ==
  [t EXCEPT
     !.cd = Create(@, t.r.src1[t.r.p].data, t.r.src2[t.r.p].data,
                   t.r.src1[t.r.p].width, t.r.src1[t.r.p].height,
                   t.r.src1[t.r.p].stride, raw, smoothing_window),
     !.r.pc = "use"]

\* Lines 277-278, or 310-327: the curve is used, and the loop goes on
UseStep(t) ==
  LET p == t.r.p
      Db(u) == [u EXCEPT !.r.dst[0].data = Debug(@, u.cd.curve, u.r.dst[0].stride)]
      Pr(u) == [u EXCEPT !.r.dst[p].data =
                  Process([s |-> u.r.src3[p].data, d |-> @], u.cd.curve, "s", "d",
                          u.r.src3[p].width, u.r.src3[p].height, u.r.dst[p].stride).d]
      Mark(u) == IF ~show THEN u
                 ELSE [u EXCEPT !.r.dst[0].data =
                         Show(@, u.cd.curve, u.r.dst[0].stride, show_colors[p])]
      Nx(u) == [u EXCEPT !.r.p = @ + 1, !.r.pc = "plane"]
  IN IF debug THEN Bind(Bind(t, Db), Nx)
     ELSE Bind(Bind(Bind(Bind(t, Pr), ShowFill), Mark), Nx)

\* One step of an activation
Step(t) ==
  CASE t.r.pc = "initial" -> StartStep(t)
    [] t.r.pc = "plane"   -> PlaneStep(t)
    [] t.r.pc = "create"  -> CreateStep(t)
    [] t.r.pc = "use"     -> UseStep(t)
    [] OTHER              -> t

\* The frames of the clips for frame number n
ClipFrames(n, kk, vv) ==
  [src1 |-> Frame(format, 2 * MaxWidth, MaxHeight, [k \in DOMAIN kk |-> kk[k] + 3 * n], 7),
   src2 |-> Frame(format, 2 * MaxWidth, MaxHeight,
                  [k \in DOMAIN vv |-> (vv[k] + 40 * n) % Levels], 9),
   src3 |-> Frame(format, 2 * MaxWidth, MaxHeight, <<1 + n, 100, 103, 106>>, 3)]

\* The filter has been set up, and its frames 0 .. MaxRequests - 1 are
\* requested at once
ParInit ==
  /\ pc = "parallel"
  /\ format \in {f \in Formats : f.subSamplingW = 0}
  /\ process \in [0 .. 2 -> {0, 1}]
  /\ \E p \in 0 .. 2 : process[p] = 1
  /\ \A p \in 0 .. 2 : p >= format.numPlanes => process[p] = 0
  /\ raw \in BOOLEAN
  /\ smoothing_window = MaxWindow
  /\ debug \in BOOLEAN
  /\ show = FALSE
  \* lines 472-474; the debug frames are large: fewer of them
  /\ debug => (process[0] + process[1] + process[2] <= 1 /\ ~raw /\ format.numPlanes = 1)
  \* lines 479-482
  /\ vi = IF debug
          THEN [format |-> format, width |-> OverlaySize, height |-> OverlaySize]
          ELSE [format |-> format, width |-> 2 * MaxWidth, height |-> MaxHeight]
  /\ \E kk \in {<<100, 103>>}, vv \in {<<0, 255, 1>>} :
       reqs = [n \in Requests |->
                 [pc |-> "initial", p |-> 0, dst |-> <<>>,
                  src1 |-> ClipFrames(n, kk, vv).src1,
                  src2 |-> ClipFrames(n, kk, vv).src2,
                  src3 |-> ClipFrames(n, kk, vv).src3]]
  \* the constructor of CurveData leaves its fields as they are
  /\ cds = [o \in Requests |->
              [sum   |-> [i \in Idx |-> i + 1],
               div   |-> [i \in Idx |-> Levels - i],
               curve |-> [i \in Idx |-> (i * 3) % Levels]]]
  /\ sum = <<>> /\ div = <<>> /\ curve = <<>>
  /\ src1 = <<>> /\ src2 = <<>> /\ src3 = <<>> /\ dst = <<>>
  /\ ptr1 = <<>> /\ ptr2 = <<>>
  /\ width = 0 /\ height = 0 /\ stride = 0
  /\ mem = <<>> /\ srcp = "none" /\ dstp = "none"
  /\ plane = <<>> /\ pstride = 0 /\ color = 0
  /\ runs = <<>> /\ pos = 0
  /\ in = <<>> /\ out = <<>> /\ refs = <<>>

\* Activation n takes its next step
Advance(n) ==
  /\ \E t \in {Step(Thread(n))} :
       /\ reqs' = [reqs EXCEPT ![n] = t.r]
       /\ cds' = [cds EXCEPT ![CurveObject(n)] = t.cd]
  /\ UNCHANGED <<pc, args, fields, procv, rendv, reqv, accv, setv>>

ParStart  == \E n \in Requests : reqs[n].pc = "initial" /\ Advance(n)
ParPlane  == \E n \in Requests : reqs[n].pc = "plane" /\ Advance(n)
ParCreate == \E n \in Requests : reqs[n].pc = "create" /\ Advance(n)
ParUse    == \E n \in Requests : reqs[n].pc = "use" /\ Advance(n)

ParNext == ParStart \/ ParPlane \/ ParCreate \/ ParUse

SpecPar == ParInit /\ [][ParNext]_vars

Next ==
  \/ CreateRaw
  \/ CreateUniform
  \/ CreateFill
  \/ CreateExtend
  \/ CreateSmooth
  \/ DoProcess

Spec == Init /\ [][Next]_vars

(***************************************************************************)
(* What the input planes hold, counted directly from the buffers.          *)
(***************************************************************************)
\* The offsets inside width x height
Positions == {o \in 0 .. (height * stride - 1) : o % stride < width}
\* The bytes of a buffer of the planes' size, by offset
Bytes(p) == [o \in 0 .. (height * stride - 1) |-> Load(p, o, stride)]
\* The positions whose key sample is v
KeyPositions(v) == {o \in Positions : Load(ptr1, o, stride) = v}

RECURSIVE SetSum(_, _)
SetSum(f, S) ==
  IF S = {} THEN 0
  ELSE LET x == CHOOSE x \in S : TRUE
       IN f[x] + SetSum(f, S \ {x})

\* c is t / n rounded to the nearest integer, a tie rounded up
IsRoundedMean(c, t, n) ==
  /\ n > 0
  /\ 2 * (c * n - t) <= n
  /\ 2 * (c * n - t) > -n

\* Every sample of the key plane is the same
KeyUniform == \E k \in Idx : \A o \in Positions : Load(ptr1, o, stride) = k

Identity == [i \in Idx |-> i]

(***************************************************************************)
(* C1.  With raw = true, for any key plane and value plane of the same     *)
(* width, height and stride, Create leaves curve[v] = the mean of the      *)
(* value samples at the positions whose key sample is v, rounded to        *)
(* nearest, and curve[v] = 0 when no position has key v -- whatever        *)
(* smoothing_window is.                                                    *)
(***************************************************************************)
C1_RawCurveIsRoundedMean ==
  (pc = "created" /\ raw) =>
    \A v \in Idx :
      IF KeyPositions(v) = {}
      THEN curve[v] = 0
      ELSE IsRoundedMean(curve[v], SetSum(Bytes(ptr2), KeyPositions(v)),
                         Cardinality(KeyPositions(v)))

\* A raw curve built with a smoothing window, holding a mean that was
\* rounded up from a tie and an index no key sample has
C1_Witness ==
  /\ pc = "created" /\ raw /\ smoothing_window > 0
  /\ \E v \in Idx : div[v] = 2 /\ sum[v] = 1 /\ curve[v] = 1
  /\ \E u \in Idx : KeyPositions(u) = {} /\ curve[u] = 0

(***************************************************************************)
(* C2.  With raw = false: when every key sample is the same, the step      *)
(* after the raw curve ends Create with curve[v] = the rounded mean of all *)
(* value samples for every v, for every smoothing_window, and sum and div  *)
(* are as the accumulation left them (no gap fill, no extrapolation, no    *)
(* smoothing); when the key plane has two or more values, the step after   *)
(* the raw curve is the gap fill.                                          *)
(***************************************************************************)
C2_UniformSource ==
  [][pc = "post" =>
       IF KeyUniform
       THEN /\ pc' = "created"
            /\ sum' = sum /\ div' = div
            /\ \A v \in Idx :
                 IsRoundedMean(curve'[v], SetSum(Bytes(ptr2), Positions),
                               Cardinality(Positions))
       ELSE pc' = "extend"]_vars

\* A uniform key plane (key # 0) with value samples 0 and 255, smoothing on
C2_Witness ==
  /\ pc = "created" /\ ~raw /\ KeyUniform /\ smoothing_window > 0
  /\ Cardinality(Positions) = 2
  /\ div[0] = 0
  /\ \A v \in Idx : curve[v] = 128

(***************************************************************************)
(* C3.  After Create with raw = false on a key plane with at least two     *)
(* distinct values, div[i] # 0 for every i in 0..255, for every            *)
(* smoothing_window.                                                       *)
(***************************************************************************)
C3_FullCoverage ==
  (pc = "created" /\ ~raw /\ ~KeyUniform) => \A i \in Idx : div[i] # 0

\* Both smoothing and no smoothing leave full coverage; the witness is the
\* smoothed one, on a key plane that needed extension at both ends
C3_Witness ==
  /\ pc = "created" /\ ~raw /\ ~KeyUniform /\ smoothing_window > 0
  /\ KeyPositions(0) = {} /\ KeyPositions(TopIdx) = {}
  /\ \A i \in Idx : div[i] # 0

(***************************************************************************)
(* C4.  Create terminates: every iteration of the while loop               *)
(* (div[0] == 0 || div[255] == 0) finds a defined index to reflect about   *)
(* and defines at least one new index on each side that is still           *)
(* undefined, so the number of undefined indices falls with every          *)
(* iteration and the loop ends, with index 0 and index 255 defined.        *)
(***************************************************************************)
Undefined(d) == {i \in Idx : d[i] = 0}

ExtendProgress ==
  (pc = "extend" /\ pc' = "extend") =>
    /\ \E i \in Idx : div[i] # 0
    /\ div[0] = 0 => \E i \in Idx : div[i] = 0 /\ div'[i] # 0
                                    /\ \A j \in 0 .. i : div[j] = 0
    /\ div[TopIdx] = 0 => \E i \in Idx : div[i] = 0 /\ div'[i] # 0
                                         /\ \A j \in i .. TopIdx : div[j] = 0
    /\ Cardinality(Undefined(div')) < Cardinality(Undefined(div))

LoopExit ==
  (pc = "extend" /\ pc' # "extend") =>
    (pc' = "created" /\ div[0] # 0 /\ div[TopIdx] # 0)

C4_CreateTerminates == [][ExtendProgress /\ LoopExit]_vars

\* The loop ran with both ends undefined and Create has ended
C4_Witness ==
  /\ pc = "created" /\ ~raw /\ ~KeyUniform
  /\ KeyPositions(0) = {} /\ KeyPositions(TopIdx) = {}
  /\ div[0] # 0 /\ div[TopIdx] # 0

(***************************************************************************)
(* C5.  Create(P, P, raw = true) gives curve[v] = v for every v that       *)
(* occurs in P.                                                            *)
(***************************************************************************)
C5_IdentityCheck ==
  (pc = "created" /\ raw /\ ptr2 = ptr1) =>
    \A v \in Idx : div[v] # 0 => curve[v] = v

\* A plane against itself, with two values that are not 0, one of them
\* at least occurring more than once
C5_Witness ==
  /\ pc = "created" /\ raw /\ ptr2 = ptr1
  /\ \E v \in Idx : \E u \in Idx :
       /\ v # 0 /\ div[v] >= 2 /\ curve[v] = v
       /\ u # 0 /\ u # v /\ div[u] >= 1 /\ curve[u] = u

(***************************************************************************)
(* C6.  Process sets dst[pos] = curve[src[pos]] at every position inside   *)
(* width x height, leaves the curve and everything else alone, in place    *)
(* (dst = src) as with a distinct dst; with the identity curve the plane   *)
(* comes out as it went in.                                                *)
(***************************************************************************)
ProcessEffect ==
  (pc = "created" /\ pc' = "processed") =>
    /\ \A o \in 0 .. (height * stride - 1) :
         Load(mem'[dstp'], o, stride) =
           IF o \in Positions THEN curve[Load(mem[srcp'], o, stride)]
           ELSE Load(mem[dstp'], o, stride)
    /\ \A b \in DOMAIN mem : b # dstp' => mem'[b] = mem[b]
    /\ curve' = curve /\ sum' = sum /\ div' = div
    /\ curve = Identity =>
         \A o \in Positions : Load(mem'[dstp'], o, stride) = Load(mem[srcp'], o, stride)

C6_ProcessLookup == [][ProcessEffect]_vars

\* Process in place, on a plane it changed
C6_Witness ==
  /\ pc = "processed" /\ srcp = dstp
  /\ \E o \in Positions :
       Load(mem[dstp], o, stride) # Load(IF srcp = "a" THEN ptr1 ELSE ptr2, o, stride)
  /\ \A o \in Positions :
       Load(mem[dstp], o, stride) =
         curve[Load(IF srcp = "a" THEN ptr1 ELSE ptr2, o, stride)]

(***************************************************************************)
(* C7.  With raw = false and smoothing_window = 0 on a non-uniform key     *)
(* plane, the curve Create returns is the curve the while loop left: the   *)
(* closing curve[i] = IntDiv(sum[i], div[i]) changes no entry.             *)
(***************************************************************************)
C7_WindowZeroNoOp ==
  [][(pc = "extend" /\ pc' = "created" /\ smoothing_window = 0) => curve' = curve]_vars

\* No smoothing; an index averaged from two samples, one filled between two
\* keys and one reflected below the first key
C7_Witness ==
  /\ pc = "created" /\ ~raw /\ ~KeyUniform /\ smoothing_window = 0
  /\ \E k \in Idx : KeyPositions(k) # {} /\ div[k] = 2
  /\ \E i \in Idx : KeyPositions(i) = {} /\ div[i] = 1
                    /\ (\E k \in Idx : k < i /\ KeyPositions(k) # {})
                    /\ (\E k \in Idx : k > i /\ KeyPositions(k) # {})
  /\ KeyPositions(0) = {} /\ div[0] = 1

(***************************************************************************)
(* C8.  After Debug, column x (0..255) of the plane holds, for             *)
(* curve[x] in 1..255: the grey level curve[x] in rows 255 down to         *)
(* 255 - curve[x] + 1 and 255 at row 255 - curve[x]; for curve[x] = 0:     *)
(* the grey level 0 at row 255 and no 255.  The rows of the column above   *)
(* 255 - curve[x], and every byte outside the 256 columns and 256 rows,    *)
(* are unchanged.                                                          *)
(***************************************************************************)
C8_DebugRendering ==
  pc = "debugged" =>
    \A cv \in {Canvas(pstride, pstride)} :
      /\ DOMAIN plane = DOMAIN cv
      /\ \A y \in DOMAIN cv :
           /\ DOMAIN plane[y] = DOMAIN cv[y]
           /\ \A x \in DOMAIN cv[y] :
                plane[y][x] =
                  IF x > TopIdx \/ y > TopIdx \/ y < TopIdx - curve[x] THEN cv[y][x]
                  ELSE IF y = TopIdx - curve[x] /\ curve[x] > 0 THEN TopIdx
                  ELSE curve[x]

\* A plane wider than 256 with a column of height 0, which has no trace,
\* and a column with bar and trace below the top row
C8_Witness ==
  /\ pc = "debugged" /\ pstride = Levels + MaxPad
  /\ \E x \in Idx : curve[x] = 0 /\ plane[TopIdx][x] = 0
  /\ \E x \in Idx :
       /\ curve[x] > 1 /\ curve[x] < TopIdx
       /\ plane[TopIdx][x] = curve[x]
       /\ plane[TopIdx - curve[x] + 1][x] = curve[x]
       /\ plane[TopIdx - curve[x]][x] = TopIdx
       /\ plane[TopIdx - curve[x] - 1][x] < 89

\* C8 as the specification words it: for every curve[x] in 0..255 the
\* pixel at (x, 255 - curve[x]) holds 255
C8_TraceAtEveryHeight ==
  pc = "debugged" =>
    \A cv \in {Canvas(pstride, pstride)} :
      \A x \in Idx :
        /\ \A y \in (TopIdx - curve[x] + 1) .. TopIdx : plane[y][x] = curve[x]
        /\ plane[TopIdx - curve[x]][x] = TopIdx
        /\ \A y \in 0 .. (TopIdx - curve[x] - 1) : plane[y][x] = cv[y][x]

(***************************************************************************)
(* C9.  Show(ptr, stride, color) writes exactly 256 bytes of the plane:    *)
(* in each column x of 0..255 the one at row 255 - curve[x], which gets    *)
(* color; the row is in 0..255, and every other byte of the plane is as    *)
(* it was.                                                                 *)
(***************************************************************************)
C9_ShowWritesCurve ==
  pc = "shown" =>
    \A cv \in {Canvas(pstride, pstride)} :
      /\ DOMAIN plane = DOMAIN cv
      /\ \A y \in DOMAIN cv : DOMAIN plane[y] = DOMAIN cv[y]
      /\ \A x \in 0 .. (pstride - 1) :
           \A w \in {{y \in DOMAIN cv : plane[y][x] # cv[y][x]}} :
             IF x > TopIdx THEN w = {}
             ELSE /\ w = {TopIdx - curve[x]}
                  /\ w \subseteq Idx
                  /\ plane[TopIdx - curve[x]][x] = color

\* A plane wider than 256 where the markers reach the top row and the
\* bottom row
C9_Witness ==
  /\ pc = "shown" /\ pstride = Levels + MaxPad /\ color = show_colors[1]
  /\ \E x \in Idx : curve[x] = 0 /\ plane[TopIdx][x] = color
  /\ \E x \in Idx : curve[x] = TopIdx /\ plane[0][x] = color
  /\ \E x \in Idx : curve[x] > 0 /\ curve[x] < TopIdx
                    /\ plane[TopIdx - curve[x]][x] = color

(***************************************************************************)
(* C10.  In a frame returned in non-debug mode, every plane that is not    *)
(* selected has the size of the same plane of clip3's frame (clip1's when  *)
(* clip3 is not given) and, with show = false, its samples; with           *)
(* show = true it has its samples outside the overlay, the top left        *)
(* 256 x 256 samples of plane 0 and (256 >> subSamplingW) x                *)
(* (256 >> subSamplingH) samples of the other planes, and inside the       *)
(* overlay it holds the background, 16 on plane 0 and 128 on the others,   *)
(* or, on plane 0, the marker colour of a selected plane.                  *)
(***************************************************************************)
Unselected == {p \in 0 .. (format.numPlanes - 1) : process[p] = 0}

InOverlay(p, x, y) ==
  /\ show
  /\ x < PlaneWidth(format, OverlaySize, p)
  /\ y < PlaneHeight(format, OverlaySize, p)

OverlayValues(p) ==
  IF p # 0 THEN {128}
  ELSE {16} \cup {show_colors[q] : q \in {r \in 0 .. 2 : process[r] # 0}}

C10_UnselectedPlanes ==
  (pc = "frame" /\ ~debug) =>
    \A p \in Unselected :
      \A b \in {src3[p]} : \A f \in {dst[p]} : \A ov \in {OverlayValues(p)} :
        /\ f.width = b.width /\ f.height = b.height /\ f.stride = b.stride
        /\ \A y \in 0 .. (b.height - 1) : \A x \in 0 .. (b.width - 1) :
             IF InOverlay(p, x, y) THEN f.data[y][x] \in ov
             ELSE f.data[y][x] = b.data[y][x]

\* show with plane 1 alone selected: plane 2 holds the background where
\* clip3 holds something else, plane 0 holds the background and the markers
\* of plane 1, and both hold clip3's samples right of and below the overlay
C10_Witness ==
  /\ pc = "frame" /\ ~debug /\ show
  /\ process[0] = 0 /\ process[1] = 1 /\ process[2] = 0
  /\ dst[2].data[0][0] = 128 /\ src3[2].data[0][0] # 128
  /\ dst[0].data[0][0] = 16 /\ src3[0].data[0][0] # 16
  /\ \E x \in Idx : dst[0].data[TopIdx - curve[x]][x] = show_colors[1]
  /\ dst[0].data[0][OverlaySize] = src3[0].data[0][OverlaySize]
  /\ dst[0].data[0][OverlaySize] \notin {16, 128}
  /\ dst[2].data[src3[2].height - 1][0] = src3[2].data[src3[2].height - 1][0]
  /\ src3[2].data[src3[2].height - 1][0] # 128

\* C10 as the specification words it: for any value of show, every
\* unselected plane equals the plane of the base clip sample for sample
C10_EqualForAnyShow ==
  (pc = "frame" /\ ~debug) =>
    \A p \in Unselected :
      \A b \in {src3[p]} : \A f \in {dst[p]} :
        \A y \in 0 .. (b.height - 1) : \A x \in 0 .. (b.width - 1) :
          f.data[y][x] = b.data[y][x]

(***************************************************************************)
(* C14.  With raw = false, smoothing_window = w > 0 and a non-uniform key  *)
(* plane, the step that ends Create leaves, for every i in 0..255,         *)
(* curve[i] = the sum of the entries curve[k] of the curve before the      *)
(* step over the k in 0..255 with i - w <= k < i + w, divided by the       *)
(* number of such k and rounded to nearest, a tie rounded up.              *)
(***************************************************************************)
Window(i, w) == {k \in Idx : i - w <= k /\ k < i + w}

C14_SmoothingWindow ==
  [][(pc = "extend" /\ pc' = "created" /\ smoothing_window > 0) =>
       \A i \in Idx :
         IsRoundedMean(curve'[i], SetSum(curve, Window(i, smoothing_window)),
                       Cardinality(Window(i, smoothing_window)))]_vars

\* A smoothed curve: the window is cut at index 0, whole in the middle, and
\* an entry next to a higher one was raised above 0 by its neighbours
C14_Witness ==
  /\ pc = "created" /\ ~raw /\ ~KeyUniform /\ smoothing_window > 0
  /\ div[0] = smoothing_window
  /\ div[100] = 2 * smoothing_window
  /\ \E i \in 0 .. (TopIdx - 1) :
                    KeyPositions(i) # {} /\ KeyPositions(i + 1) = {}
                    /\ curve[i] > 0 /\ curve[i + 1] > curve[i]
                    /\ sum[i] # curve[i] * div[i]

(***************************************************************************)
(* C15.  The gap fill is one pass over i = 0..255.  An index i that is     *)
(* undefined (div[i] = 0) and has a defined index below and above it gets  *)
(*   curve[i] = curve[prev] + round((i - prev) * (curve[next] -            *)
(*                                  curve[prev]) / (next - prev)),         *)
(* with prev and next the nearest defined indices when the pass is at i    *)
(* (the indices below i as the pass leaves them, those above i as it       *)
(* found them), and div[i] = 1, sum[i] = curve[i].  The value lies between *)
(* curve[prev] and curve[next], so clamping to 0..255 does not change it.  *)
(* Every other index keeps sum, div and curve.                             *)
(***************************************************************************)
Abs(x) == IF x < 0 THEN -x ELSE x

\* r is x / y (y > 0) rounded to nearest, a tie rounded away from zero
IsRoundDiv(r, x, y) ==
  /\ 2 * Abs(r * y - x) <= y
  /\ 2 * Abs(r * y - x) = y => Abs(r * y) > Abs(x)

\* prev is the nearest index below i that d marks defined
IsPrev(d, prev, i) == d[prev] # 0 /\ \A q \in (prev + 1) .. (i - 1) : d[q] = 0
\* next is the nearest index above i that d marks defined
IsNext(d, next, i) == d[next] # 0 /\ \A q \in (i + 1) .. (next - 1) : d[q] = 0

FillEffect ==
  \A i \in Idx :
    IF /\ div[i] = 0
       /\ \E p \in 0 .. (i - 1) : div'[p] # 0
       /\ \E n \in (i + 1) .. TopIdx : div[n] # 0
    THEN \E prev \in 0 .. (i - 1) :
           /\ IsPrev(div', prev, i)
           /\ \E next \in (i + 1) .. TopIdx :
                /\ IsNext(div, next, i)
                /\ IsRoundDiv(curve'[i] - curve'[prev],
                              (i - prev) * (curve[next] - curve'[prev]), next - prev)
                /\ curve'[i] >= Min(curve'[prev], curve[next])
                /\ curve'[i] <= Max(curve'[prev], curve[next])
           /\ div'[i] = 1
           /\ sum'[i] = curve'[i]
    ELSE curve'[i] = curve[i] /\ div'[i] = div[i] /\ sum'[i] = sum[i]

C15_GapInterpolation == [][(pc = "post" /\ pc' = "extend") => FillEffect]_vars

\* Two keys three apart: the first gap index was filled from the two keys,
\* the second from the first and the upper key, by a division that rounded
\* up; the indices outside the keys are still undefined
C15_Witness ==
  /\ pc = "extend" /\ div[0] = 0 /\ div[TopIdx] = 0
  /\ KeyPositions(100) # {} /\ KeyPositions(103) # {}
  /\ curve[100] = 0 /\ curve[103] = 1
  /\ div[101] = 1 /\ curve[101] = 0 /\ sum[101] = 0
  /\ div[102] = 1 /\ curve[102] = 1 /\ sum[102] = 1

(***************************************************************************)
(* C16.  After the gap fill and after every iteration of the while loop    *)
(* the defined indices {i : div[i] # 0} are one non-empty interval: no     *)
(* undefined index has a defined index on both sides.  The gap fill        *)
(* defines no index below the first or above the last index that was       *)
(* defined before it.                                                      *)
(***************************************************************************)
Contiguous(d) ==
  /\ \E i \in Idx : d[i] # 0
  /\ \A j \in Idx :
       d[j] = 0 => \/ \A i \in 0 .. (j - 1) : d[i] = 0
                   \/ \A k \in (j + 1) .. TopIdx : d[k] = 0

FillInsideSpan ==
  (pc = "post" /\ pc' = "extend") =>
    \A i \in Idx :
      (\/ \A p \in 0 .. i : div[p] = 0
       \/ \A n \in i .. TopIdx : div[n] = 0) => div'[i] = 0

C16_ContiguousSpan ==
  /\ [](pc = "extend" => Contiguous(div))
  /\ [][FillInsideSpan]_vars

\* After an iteration of the loop: indices below the lowest key and above
\* the highest key are defined, index 0 and index 255 are not yet
C16_Witness ==
  /\ pc = "extend" /\ div[0] = 0 /\ div[TopIdx] = 0
  /\ \E i \in Idx : div[i] = 1 /\ \A k \in 0 .. i : KeyPositions(k) = {}
  /\ \E i \in Idx : div[i] = 1 /\ \A k \in i .. TopIdx : KeyPositions(k) = {}
  /\ \E i \in Idx : div[i] = 1 /\ KeyPositions(i) = {}
                    /\ (\E k \in 0 .. i : KeyPositions(k) # {})
                    /\ (\E k \in i .. TopIdx : KeyPositions(k) # {})
  /\ Contiguous(div)

(***************************************************************************)
(* C17.  One iteration of the while loop, with first and last the lowest   *)
(* and the highest defined index before it.  An index i < first becomes    *)
(* defined, with curve[i] = clamp(2 * curve[first] - curve[2 * first - i], *)
(* 0, 255), div[i] = 1 and sum[i] = curve[i], exactly when                 *)
(* 2 * first - i <= 255 and the mirror index 2 * first - i is defined.     *)
(* An index i > last becomes defined, with curve[i] = clamp(2 *            *)
(* curve[last] - curve[2 * last - i], 0, 255), exactly when                *)
(* 2 * last - i >= 0 and the mirror index 2 * last - i is defined when     *)
(* the top is extended, that is after the bottom was.  No index that is    *)
(* defined before the iteration changes.                                   *)
(***************************************************************************)
ExtendEffect ==
  \E first \in Idx : \E last \in Idx :
    /\ div[first] # 0 /\ \A p \in 0 .. (first - 1) : div[p] = 0
    /\ div[last] # 0 /\ \A n \in (last + 1) .. TopIdx : div[n] = 0
    /\ \A i \in first .. last :
         div[i] # 0 => (curve'[i] = curve[i] /\ div'[i] = div[i] /\ sum'[i] = sum[i])
    /\ \A i \in 0 .. (first - 1) :
         IF 2 * first - i <= TopIdx /\ div[2 * first - i] # 0
         THEN /\ curve'[i] = Clamp(2 * curve[first] - curve[2 * first - i])
              /\ div'[i] = 1
              /\ sum'[i] = curve'[i]
         ELSE curve'[i] = curve[i] /\ div'[i] = 0 /\ sum'[i] = sum[i]
    /\ \A i \in (last + 1) .. TopIdx :
         IF 2 * last - i >= 0 /\ div'[2 * last - i] # 0
         THEN /\ curve'[i] = Clamp(2 * curve[last] - curve'[2 * last - i])
              /\ div'[i] = 1
              /\ sum'[i] = curve'[i]
         ELSE curve'[i] = curve[i] /\ div'[i] = 0 /\ sum'[i] = sum[i]

C17_BoundaryExtrapolation ==
  [][(pc = "extend" /\ pc' = "extend") => ExtendEffect]_vars

\* After the first iteration on the keys 100 and 103 with means 1 and 0:
\* 97..99 reflect 103..101 about 100 (curve[97] = 2 * 1 - 0), 104..109
\* reflect 102..97 about 103, 109 from the index 97 the same iteration
\* defined, clamped from -2 to 0; 96 and 110 have no defined mirror
C17_Witness ==
  /\ pc = "extend"
  /\ KeyPositions(100) # {} /\ KeyPositions(103) # {}
  /\ curve[100] = 1 /\ curve[103] = 0
  /\ div[97] = 1 /\ curve[97] = 2 /\ sum[97] = 2
  /\ div[96] = 0
  /\ div[109] = 1 /\ curve[109] = 0
  /\ div[110] = 0

(***************************************************************************)
(* C18.  For a plane pair of at most (2^32 - 1) / 255 samples: no          *)
(* accumulation into sum[v] or div[v] wraps, sum[v] <= 255 * div[v], the   *)
(* div[v] add up to width * height, and after the raw curve curve[v] is    *)
(* the mean of the value samples under key v rounded to nearest, for       *)
(* every v with a sample.                                                  *)
(***************************************************************************)
\* Numbers up to 2^47 as <<h, l>> = h * 2^16 + l with l < 2^16
Big(h, l) == <<h + (l \div 65536), l % 65536>>
BigAdd(a, b) == Big(a[1] + b[1], a[2] + b[2])
BigLess(a, b) == a[1] < b[1] \/ (a[1] = b[1] /\ a[2] < b[2])
\* n * k for n < 2^31 and k < 2^15
BigProduct(n, k) == Big((n \div 65536) * k, (n % 65536) * k)
\* The 32 bits of a number below 2^32, as an int
BigBits(a) ==
  IF a[1] >= 32768 THEN (a[1] - 65536) * 65536 + a[2] ELSE a[1] * 65536 + a[2]

\* The runs accumulated so far, those with key v
RunsDone(v) == {j \in 1 .. (pos - 1) : runs[j].k = v}

RECURSIVE BigSum(_, _)
BigSum(F(_), S) ==
  IF S = {} THEN Big(0, 0)
  ELSE LET j == CHOOSE j \in S : TRUE
       IN BigAdd(F(j), BigSum(F, S \ {j}))

\* The sum of the value samples and the number of samples under key v
TrueSum(v) == LET T(j) == BigProduct(runs[j].n, runs[j].v) IN BigSum(T, RunsDone(v))
TrueDiv(v) == LET N(j) == BigProduct(runs[j].n, 1) IN BigSum(N, RunsDone(v))

\* c is t / n rounded to nearest, a tie up:  2cn <= 2t + n < 2(c + 1)n
IsBigRoundedMean(c, t, n) ==
  LET m == BigAdd(BigAdd(t, t), n)
  IN /\ ~BigLess(m, BigProduct(BigBits(n), 2 * c))
     /\ BigLess(m, BigProduct(BigBits(n), 2 * c + 2))

\* The accumulators hold the true sums and counts
AccumulatorsExact ==
  pc \in {"populate", "created"} =>
    /\ \A v \in Idx :
         /\ TrueSum(v)[1] < 65536 /\ sum[v] = BigBits(TrueSum(v))
         /\ TrueDiv(v)[1] < 65536 /\ div[v] = BigBits(TrueDiv(v))
         /\ ~BigLess(BigProduct(div[v], TopIdx), TrueSum(v))
    /\ LET N(j) == BigProduct(runs[j].n, 1)
       IN BigSum(N, 1 .. (pos - 1)) = BigAdd(BigSum(TrueDiv, RunKeys), Big(0, 0))

C18_AccumulatorWidth ==
  /\ AccumulatorsExact
  /\ pc = "created" =>
       \A v \in Idx : div[v] # 0 => IsBigRoundedMean(curve[v], TrueSum(v), TrueDiv(v))

(***************************************************************************)
(* C11.  Setup ends in an error and createFilter is not called whenever    *)
(* one of these holds: smoothing_window < 0; the formats of the clips      *)
(* differ; clip1 and clip2 differ in width or height; a format or a        *)
(* dimension is not constant; the format is RGB or has more than 8 bits;   *)
(* a plane index is out of range; a plane index is given twice; show is    *)
(* requested, debug is not, and clip1 or clip3 is smaller than 256 x 256;  *)
(* more than one plane is selected with debug.  The message reported is    *)
(* the message of one of the conditions that hold, the messages are        *)
(* pairwise different, and on an error path every reference that was       *)
(* acquired has been freed exactly once.                                   *)
(***************************************************************************)
\* The video info behind d.clip3
Third(a) == IF a.clip3 = <<>> THEN a.clip1 ELSE a.clip3[1]
Clips(a) == {a.clip1, a.clip2, Third(a)}

Negative(a) == a.smoothing_window # <<>> /\ a.smoothing_window[1] < 0
FormatsDiffer(a) == \E u, v \in Clips(a) : u.format # v.format
SizesDiffer(a) == a.clip1.width # a.clip2.width \/ a.clip1.height # a.clip2.height
NotConstant(a) ==
  \E v \in Clips(a) : v.format = NoFormat \/ v.width = 0 \/ v.height = 0
Unsupported(a) ==
  \E v \in Clips(a) : v.format.colorFamily = "cmRGB" \/ v.format.bitsPerSample > 8
OutOfRange(a) ==
  \E i \in 1 .. Len(a.planes) :
    a.planes[i] < 0 \/ a.planes[i] >= a.clip1.format.numPlanes
Twice(a) ==
  \E i, j \in 1 .. Len(a.planes) : i # j /\ a.planes[i] = a.planes[j]
Small(a) ==
  \E v \in {a.clip1, Third(a)} : v.width < OverlaySize \/ v.height < OverlaySize
ShowSmall(a) == Flag(a.show) /\ ~Flag(a.debug) /\ Small(a)
ShowRequestedSmall(a) == Flag(a.show) /\ Small(a)
DebugPlanes(a) ==
  Flag(a.debug) /\ Cardinality({a.planes[i] : i \in 1 .. Len(a.planes)}) > 1

\* The message of each condition
Message ==
  <<"MatchHistogram: smoothing_window must not be negative.",
    "MatchHistogram: the clips must have the same format.",
    "MatchHistogram: the first two clips must have the same dimensions.",
    "MatchHistogram: the clips must have constant format and dimensions.",
    "MatchHistogram: the clips must have 8 bits per sample and must not be RGB.",
    "MatchHistogram: plane index out of range",
    "MatchHistogram: plane specified twice",
    "MatchHistogram: clips must be at least 256x256 pixels when show is True.",
    "MatchHistogram: only one plane can be processed at a time when debug is True.">>

\* The messages of the conditions that hold for the argument map
Conditions(a, showsmall) ==
  LET holds == <<Negative(a), FormatsDiffer(a), SizesDiffer(a), NotConstant(a),
                 Unsupported(a), OutOfRange(a), Twice(a), showsmall, DebugPlanes(a)>>
  IN {Message[k] : k \in {k \in DOMAIN Message : holds[k]}}

\* What C11 says of the state after setup, for a set of conditions that hold
SetupErrors(conds) ==
  /\ \A j, k \in DOMAIN Message : j # k => Message[j] # Message[k]
  /\ pc # "setup" =>
       /\ conds # {} => pc = "error"
       /\ pc = "error" =>
            /\ out.error \in conds /\ ~out.created
            /\ \A c \in ClipRefs : refs[c].got <= 1 /\ refs[c].freed = refs[c].got
            /\ Negative(in) <=> \A c \in ClipRefs : refs[c].got = 0

C11_SetupErrors == SetupErrors(Conditions(in, ShowSmall(in)))

\* A plane given twice, without clip3: the error of the plane, and the three
\* references, two of them to the node of clip1, are freed
C11_Witness ==
  /\ pc = "error"
  /\ out.error = "MatchHistogram: plane specified twice"
  /\ in.clip3 = <<>>
  /\ refs["clip3"].node = "clip1"
  /\ \A c \in ClipRefs : refs[c].got = 1 /\ refs[c].freed = 1

\* C11 as the specification words it: an error whenever show is requested
\* with a clip smaller than 256 x 256
C11_ErrorWheneverShowSmall == SetupErrors(Conditions(in, ShowRequestedSmall(in)))

(***************************************************************************)
(* C12.  With debug set, setup with the other value of show and the same   *)
(* other arguments ends the same way: the same error, or a filter with the *)
(* same data, whose show flag is off and whose output is 256 x 256; and    *)
(* the frame it returns is the diagnostic frame, 256 x 256, not a          *)
(* processed frame with an overlay.                                        *)
(***************************************************************************)
\* The argument map with the other value of show
OtherShow(a) == [a EXCEPT !.show = IF Flag(@) THEN <<>> ELSE <<1>>]

C12_DebugOverridesShow ==
  (pc # "setup" /\ Flag(in.debug)) =>
    \E o \in {MatchHistogramCreate(OtherShow(in))} :
      /\ o.error = out.error /\ o.created = out.created
      /\ out.created =>
           /\ o.raw = raw /\ o.show = show /\ o.debug = debug
           /\ o.smoothing_window = smoothing_window
           /\ o.process = process /\ o.vi = vi /\ o.refs = refs
           /\ debug /\ ~show
           /\ vi.width = OverlaySize /\ vi.height = OverlaySize
      /\ pc = "frame" =>
           /\ dst = DebugFrame.dst
           /\ \A p \in DOMAIN dst :
                /\ dst[p].width = PlaneWidth(format, OverlaySize, p)
                /\ dst[p].height = PlaneHeight(format, OverlaySize, p)

\* show and debug are both requested for clips too small for show: the
\* filter is created and returns a 256 x 256 frame
C12_Witness ==
  /\ pc = "frame"
  /\ Flag(in.debug) /\ Flag(in.show)
  /\ in.clip1.width = SmallSide
  /\ dst[0].width = OverlaySize /\ dst[0].height = OverlaySize

(***************************************************************************)
(* C13.  With requests served in parallel, the frame an activation returns *)
(* is the frame it returns when it runs alone, whatever the interleaving   *)
(* of the steps: no step of another activation changes its CurveData, and  *)
(* no step changes the data of the filter.                                 *)
(***************************************************************************)
\* The activation run from t to its end with no other step in between
RECURSIVE RunAlone(_)
RunAlone(t) == IF t.r.pc = "done" THEN t ELSE Bind(Step(t), RunAlone)

\* Request n as it is started, with a CurveData of its own
Fresh(n) ==
  [r  |-> [reqs[n] EXCEPT !.pc = "initial", !.p = 0, !.dst = <<>>],
   cd |-> [sum   |-> [i \in Idx |-> i + 1],
           div   |-> [i \in Idx |-> Levels - i],
           curve |-> [i \in Idx |-> (i * 3) % Levels]]]

C13_ParallelRequests ==
  /\ [](pc = "parallel" =>
          \A n \in Requests :
            reqs[n].pc = "done" => reqs[n].dst = RunAlone(Fresh(n)).r.dst)
  /\ [][UNCHANGED <<filtv, raw, smoothing_window, vi>>]_vars

\* Request 0 is done and has returned the frame of a run alone, while
\* request 1 was between its Create and its use of the curve
C13_Witness ==
  /\ pc = "parallel"
  /\ reqs[0].pc = "done" /\ reqs[1].pc = "use"
  /\ reqs[0].dst = RunAlone(Fresh(0)).r.dst
  /\ cds[0].curve # cds[1].curve

====
